---- MODULE Spec2Model ----
(***************************************************************************)
(* Monte Carlo integration (task_2.py) and the beverage production plan    *)
(* (task_1.py).                                                            *)
(*                                                                         *)
(* Reals are modelled exactly as rationals.  random.random() returns k/RES *)
(* for k in 0..RES-1; a bound of integration and an integrand coefficient  *)
(* are integers, so an x or y sample is a numerator over RES and f(x) a    *)
(* numerator over RES*RES.  An estimate is a fraction num/den.             *)
(***************************************************************************)
EXTENDS Integers, Sequences, FiniteSets, TLC

\* ------------------------------------------------------------------ bounds
\* Resolution of random.random(): the outputs are 0/RES .. (RES-1)/RES.
RES == 4
\* Largest samples_count a library call is made with.
MaxSamples == 2
\* Seeds 0..MaxSeed are passed as random_seed.
MaxSeed == 2
\* samples_count of main (200_000 in the source), scaled down.
MainSamples == 2
\* Largest amount of a raw material in AvailableResources.
MaxRes == 3

\* random_seed=42 of main.
MainSeed == 42

Threads == {1, 2}

Max(a, b) == IF a >= b THEN a ELSE b
Abs(a) == IF a >= 0 THEN a ELSE -a

\* ------------------------------------------------------ the random module
\* The process-wide generator of `import random`: a deterministic finite
\* state machine.  seed() sets the state from the seed alone, each draw
\* returns a value determined by the state and advances the state.
Period == 2 * RES * RES
RngStates == 0 .. Period - 1

SeedState(seed) == (14 * seed) % Period

NextState(st) == (st + 1) % Period

\* random.random() in state st, as k of k/RES.  Over one period every pair
\* of outputs (first at an even state, second at the next) occurs once.
RandomOutput(st) ==
    LET p == st \div 2
    IN  IF st % 2 = 0 THEN p % RES ELSE ((p \div RES) + p) % RES

\* random.uniform(a, b) = a + (b - a) * random(), as a numerator over RES.
Uniform(a, b, k) == a * RES + (b - a) * k

\* ------------------------------------------------------------- integrands
\* An integrand is the polynomial a2*x^2 + a1*x + a0.
integrand_function == [a2 |-> 1, a1 |-> 0, a0 |-> 0]
\* -x^2 + 2x + 1: on [0, 2] both endpoint values are 1, the maximum 2 at x = 1.
HumpIntegrand == [a2 |-> -1, a1 |-> 2, a0 |-> 1]
\* -x^2 + 3x: on [0, 2] the endpoint values are 0 and 2, the maximum 9/4 at 3/2.
TiltIntegrand == [a2 |-> -1, a1 |-> 3, a0 |-> 0]
\* -x^2 - 1: negative everywhere.
NegativeIntegrand == [a2 |-> -1, a1 |-> 0, a0 |-> -1]

Integrands == {integrand_function, HumpIntegrand, TiltIntegrand, NegativeIntegrand}

\* function(a) for an integer a.
Eval(f, a) == f.a2 * a * a + f.a1 * a + f.a0

\* function(xn/RES), as a numerator over RES*RES.
EvalScaled(f, xn) == f.a2 * xn * xn + f.a1 * xn * RES + f.a0 * RES * RES

LowerBounds == {0, 1}
UpperBounds == {0, 1, 2}
SampleCounts == {-5, 0} \cup (1 .. MaxSamples)
Seeds == 0 .. MaxSeed

\* ----------------------------------------- estimate_integral_monte_carlo
InvalidArgumentStrictCount(n, l, u) == n < 0 \/ u <= l

\* The two checks that raise ValueError.
InvalidArgument(n, l, u) == n <= 0 \/ u <= l

BoundingHeightLowerOnly(f, l, u) == Eval(f, l)

\* max_function_value
BoundingHeight(f, l, u) == Max(Eval(f, l), Eval(f, u))

UnderCurveStrict(f, xn, yn) == yn * RES < EvalScaled(f, xn)

\* y_random <= function(x_random), both sides over RES*RES.
UnderCurve(f, xn, yn) == yn * RES <= EvalScaled(f, xn)

IntegralEstimateNoRatio(points, n, area) ==
    [kind |-> "value", num |-> points * area, den |-> 1]

\* (points_under_curve / samples_count) * rectangle_area
IntegralEstimate(points, n, area) ==
    [kind |-> "value", num |-> points * area, den |-> n]

NoResult == [kind |-> "none", num |-> 0, den |-> 1]
ValueError == [kind |-> "ValueError", num |-> 0, den |-> 1]

VARIABLES
    rng,              \* state of the process-wide generator
    frame,            \* per thread: the locals of estimate_integral_monte_carlo
    hist,             \* per thread: what the current call has done so far
    prev,             \* an earlier successful call, kept for comparison
    mainpc,           \* position of main (task_2)
    printed,          \* the lines main has printed, in order
    quad_data,        \* what try_quad_integration returned to main
    plan              \* the call of solve_production_plan (task_1)

vars == <<rng, frame, hist, prev, mainpc, printed, quad_data, plan>>

IdleFrame ==
    [pc |-> "idle", function |-> integrand_function, lower_bound |-> 0,
     upper_bound |-> 0, samples_count |-> 0, random_seed |-> 0,
     max_function_value |-> 0, rectangle_area |-> 0, points_under_curve |-> 0,
     iter |-> 0, x_random |-> 0, y_random |-> 0, result |-> NoResult]

NoHist == [rng_at_call |-> 0, seeded |-> FALSE, draws |-> <<>>, samples |-> <<>>, evals |-> 0]

NoCall ==
    [set |-> FALSE, function |-> integrand_function, lower_bound |-> 0,
     upper_bound |-> 0, samples_count |-> 0, random_seed |-> 0,
     result |-> NoResult]

NoQuad ==
    [available |-> FALSE, kind |-> "none", value |-> NoResult, abs_error_estimate |-> "none"]
NoPlan ==
    [pc |-> "idle", water_units |-> 0, sugar_units |-> 0, lemon_juice_units |-> 0,
     fruit_puree_units |-> 0, lemonade_units |-> 0, fruit_juice_units |-> 0,
     total_units |-> 0, solve_status |-> "Not Solved"]

\* The process-wide generator starts in a state the program does not choose.
Init ==
    /\ rng \in RngStates
    /\ frame = [t \in Threads |-> IdleFrame]
    /\ hist = [t \in Threads |-> NoHist]
    /\ prev = NoCall
    /\ mainpc = "start"
    /\ printed = <<>>
    /\ quad_data = NoQuad
    /\ plan = NoPlan

\* Entry of the call with the two argument checks (lines 53-56).
EnterCall(t, f, l, u, n, s) ==
    /\ frame[t].pc = "idle"
    /\ frame' = [frame EXCEPT ![t] =
          [IdleFrame EXCEPT
              !.pc = IF InvalidArgument(n, l, u) THEN "raised" ELSE "seed",
              !.function = f, !.lower_bound = l, !.upper_bound = u,
              !.samples_count = n, !.random_seed = s,
              !.result = IF InvalidArgument(n, l, u) THEN ValueError ELSE NoResult]]
    /\ hist' = [hist EXCEPT ![t] = [NoHist EXCEPT !.rng_at_call = rng]]

Call(t, f, l, u, n, s) ==
    /\ EnterCall(t, f, l, u, n, s)
    /\ UNCHANGED <<rng, prev, mainpc, printed, quad_data, plan>>

SeedSkipped(t) ==
    /\ frame[t].pc = "seed"
    /\ frame' = [frame EXCEPT ![t].pc = "height"]
    /\ hist' = [hist EXCEPT ![t].seeded = TRUE]
    /\ UNCHANGED <<rng, prev, mainpc, printed, quad_data, plan>>

\* random.seed(random_seed)
Seed(t) ==
    /\ frame[t].pc = "seed"
    /\ rng' = SeedState(frame[t].random_seed)
    /\ frame' = [frame EXCEPT ![t].pc = "height"]
    /\ hist' = [hist EXCEPT ![t].seeded = TRUE]
    /\ UNCHANGED <<prev, mainpc, printed, quad_data, plan>>

\* max_function_value, rectangle_area, points_under_curve = 0
Height(t) ==
    /\ frame[t].pc = "height"
    /\ LET fr == frame[t]
           h == BoundingHeight(fr.function, fr.lower_bound, fr.upper_bound)
       IN  frame' = [frame EXCEPT ![t] =
              [fr EXCEPT !.pc = "loop", !.max_function_value = h,
                         !.rectangle_area = (fr.upper_bound - fr.lower_bound) * h,
                         !.points_under_curve = 0, !.iter = 0]]
    /\ hist' = [hist EXCEPT ![t].evals = @ + 2]
    /\ UNCHANGED <<rng, prev, mainpc, printed, quad_data, plan>>

\* x_random = random.uniform(lower_bound, upper_bound)
DrawX(t) ==
    /\ frame[t].pc = "loop"
    /\ frame[t].iter < frame[t].samples_count
    /\ LET fr == frame[t]
       IN  /\ frame' = [frame EXCEPT ![t] =
                 [fr EXCEPT !.pc = "draw_y",
                            !.x_random = Uniform(fr.lower_bound, fr.upper_bound,
                                                 RandomOutput(rng))]]
           /\ hist' = [hist EXCEPT ![t].draws =
                 Append(@, [kind |-> "x", low |-> fr.lower_bound, high |-> fr.upper_bound])]
    /\ rng' = NextState(rng)
    /\ UNCHANGED <<prev, mainpc, printed, quad_data, plan>>

\* y_random = random.uniform(0.0, max_function_value)
DrawY(t) ==
    /\ frame[t].pc = "draw_y"
    /\ LET fr == frame[t]
           y == Uniform(0, fr.max_function_value, RandomOutput(rng))
       IN  /\ frame' = [frame EXCEPT ![t] = [fr EXCEPT !.pc = "classify", !.y_random = y]]
           /\ hist' = [hist EXCEPT
                 ![t].draws = Append(@, [kind |-> "y", low |-> 0, high |-> fr.max_function_value]),
                 ![t].samples = Append(@, <<fr.x_random, y>>)]
    /\ rng' = NextState(rng)
    /\ UNCHANGED <<prev, mainpc, printed, quad_data, plan>>

ClassifyRetry(t) ==
    /\ frame[t].pc = "classify"
    /\ LET fr == frame[t]
           under == UnderCurve(fr.function, fr.x_random, fr.y_random)
       IN  frame' = [frame EXCEPT ![t] =
              [fr EXCEPT !.pc = "loop",
                         !.points_under_curve = IF under THEN @ + 1 ELSE @,
                         !.iter = IF under THEN @ + 1 ELSE @]]
    /\ hist' = [hist EXCEPT ![t].evals = @ + 1]
    /\ UNCHANGED <<rng, prev, mainpc, printed, quad_data, plan>>

\* if y_random <= function(x_random): points_under_curve += 1; next iteration
Classify(t) ==
    /\ frame[t].pc = "classify"
    /\ LET fr == frame[t]
       IN  frame' = [frame EXCEPT ![t] =
              [fr EXCEPT !.pc = "loop",
                         !.points_under_curve =
                             IF UnderCurve(fr.function, fr.x_random, fr.y_random)
                             THEN @ + 1 ELSE @,
                         !.iter = @ + 1]]
    /\ hist' = [hist EXCEPT ![t].evals = @ + 1]
    /\ UNCHANGED <<rng, prev, mainpc, printed, quad_data, plan>>

\* The loop is over: under_curve_ratio, integral_estimate, return.
Return(t) ==
    /\ frame[t].pc = "loop"
    /\ frame[t].iter >= frame[t].samples_count
    /\ LET fr == frame[t]
       IN  frame' = [frame EXCEPT ![t] =
              [fr EXCEPT !.pc = "done",
                         !.result = IntegralEstimate(fr.points_under_curve,
                                                     fr.samples_count, fr.rectangle_area)]]
    /\ UNCHANGED <<rng, hist, prev, mainpc, printed, quad_data, plan>>

CallRecord(t) ==
    [set |-> TRUE, function |-> frame[t].function, lower_bound |-> frame[t].lower_bound,
     upper_bound |-> frame[t].upper_bound, samples_count |-> frame[t].samples_count,
     random_seed |-> frame[t].random_seed, result |-> frame[t].result]

\* The caller takes the outcome (the value or the ValueError).
Finish(t) ==
    /\ frame[t].pc \in {"done", "raised"}
    /\ frame' = [frame EXCEPT ![t] = IdleFrame]
    /\ hist' = [hist EXCEPT ![t] = NoHist]
    /\ UNCHANGED <<rng, prev, mainpc, printed, quad_data, plan>>

\* The caller takes a returned value and keeps it to compare with a later
\* call's; it keeps the first one it chooses to keep.
FinishKeep(t) ==
    /\ frame[t].pc = "done"
    /\ prev = NoCall
    /\ prev' = CallRecord(t)
    /\ frame' = [frame EXCEPT ![t] = IdleFrame]
    /\ hist' = [hist EXCEPT ![t] = NoHist]
    /\ UNCHANGED <<rng, mainpc, printed, quad_data, plan>>

\* Other code of the process draws from the process-wide generator.
GlobalDraw ==
    /\ \A t \in Threads : frame[t].pc = "idle"
    /\ rng' = NextState(rng)
    /\ UNCHANGED <<frame, hist, prev, mainpc, printed, quad_data, plan>>

\* Other code of the process re-seeds the process-wide generator.
GlobalSeed(s) ==
    /\ \A t \in Threads : frame[t].pc = "idle"
    /\ rng' = SeedState(s)
    /\ UNCHANGED <<frame, hist, prev, mainpc, printed, quad_data, plan>>

Steps(t) ==
    \/ Seed(t)
    \/ Height(t)
    \/ DrawX(t)
    \/ DrawY(t)
    \/ Classify(t)
    \/ Return(t)

\* One thread: calls run to completion, other code runs between calls.
Next ==
    \/ \E f \in Integrands, l \in LowerBounds, u \in UpperBounds,
          n \in SampleCounts, s \in Seeds : Call(1, f, l, u, n, s)
    \/ Steps(1)
    \/ Finish(1)
    \/ GlobalDraw
    \/ \E s \in Seeds : GlobalSeed(s)

Spec == Init /\ [][Next]_vars

\* One thread repeating calls on x^2 over [0, 2], a returned value kept for
\* comparison; other code draws and re-seeds between the calls.
NextRepeat ==
    \/ \E n \in 1 .. MaxSamples, s \in Seeds : Call(1, integrand_function, 0, 2, n, s)
    \/ Steps(1)
    \/ Finish(1)
    \/ FinishKeep(1)
    \/ GlobalDraw
    \/ \E s \in Seeds : GlobalSeed(s)

SpecRepeat == Init /\ [][NextRepeat]_vars

\* Two threads, each inside one call, their steps interleaved in any order.
InitConc == Init /\ rng = SeedState(0)

NextConc ==
    \E t \in Threads :
        \/ \E n \in 1 .. MaxSamples, s \in Seeds : Call(t, integrand_function, 0, 2, n, s)
        \/ Steps(t)

SpecConc == InitConc /\ [][NextConc]_vars

\* --------------------------------------------------------- main (task_2)
\* (upper_bound ** 3 - lower_bound ** 3) / 3.0
analytic_integral_x_squared(l, u) ==
    [kind |-> "value", num |-> u * u * u - l * l * l, den |-> 3]

\* The integral of the polynomial f over [l, u], exactly.
AnalyticIntegral(f, l, u) ==
    [kind |-> "value",
     num |-> 2 * f.a2 * (u * u * u - l * l * l) + 3 * f.a1 * (u * u - l * l)
             + 6 * f.a0 * (u - l),
     den |-> 6]

\* abs(a - b) for two fractions.
AbsDifference(a, b) ==
    [kind |-> "value", num |-> Abs(a.num * b.den - b.num * a.den), den |-> a.den * b.den]

TryQuadIntegrationUnguarded(available, f, l, u) ==
    IF available
    THEN [available |-> TRUE, kind |-> "value", value |-> AnalyticIntegral(f, l, u),
          abs_error_estimate |-> "quad_error"]
    ELSE [available |-> FALSE, kind |-> "ImportError", value |-> NoResult,
          abs_error_estimate |-> "none"]

\* try_quad_integration: None when `import scipy.integrate` raises ImportError,
\* else what scipy's quad returns (the integral, exact for a polynomial, and
\* its error estimate).
TryQuadIntegration(available, f, l, u) ==
    IF available
    THEN [available |-> TRUE, kind |-> "value", value |-> AnalyticIntegral(f, l, u),
          abs_error_estimate |-> "quad_error"]
    ELSE [available |-> FALSE, kind |-> "None", value |-> NoResult,
          abs_error_estimate |-> "none"]

Line(what, value) == [line |-> what, value |-> value]

\* Lines 136-139: the title, the estimate, the analytic value, their difference.
Report(monte_carlo_result, analytic_result) ==
    << Line("title", NoResult),
       Line("monte_carlo", monte_carlo_result),
       Line("analytic", analytic_result),
       Line("abs_difference", AbsDifference(monte_carlo_result, analytic_result)) >>

\* Lines 148-150: the quad title, the quad value, |MC - quad|.
QuadReport(monte_carlo_result, quad_result) ==
    << Line("quad_title", NoResult),
       Line("quad", quad_result),
       Line("mc_quad_difference", AbsDifference(monte_carlo_result, quad_result)) >>

\* main calls estimate_integral_monte_carlo(x^2, 0.0, 2.0, samples_count, 42).
MainCall ==
    /\ mainpc = "start"
    /\ EnterCall(1, integrand_function, 0, 2, MainSamples, MainSeed)
    /\ mainpc' = "monte_carlo"
    /\ UNCHANGED <<rng, prev, printed, quad_data, plan>>

\* The call has returned: the analytic value is computed and the report printed.
MainReport ==
    /\ mainpc = "monte_carlo"
    /\ frame[1].pc = "done"
    /\ printed' = printed \o Report(frame[1].result, analytic_integral_x_squared(0, 2))
    /\ mainpc' = "quad"
    /\ UNCHANGED <<rng, frame, hist, prev, quad_data, plan>>

\* quad_data = try_quad_integration(...); SciPy is installed or it is not.
MainQuad(available) ==
    /\ mainpc = "quad"
    /\ quad_data' = TryQuadIntegration(available, integrand_function, 0, 2)
    /\ mainpc' = "quad_returned"
    /\ UNCHANGED <<rng, frame, hist, prev, printed, plan>>

\* Lines 143-150.  An exception out of try_quad_integration would end main here.
MainAfterQuad ==
    /\ mainpc = "quad_returned"
    /\ mainpc' = IF quad_data.kind = "ImportError" THEN "crashed" ELSE "done"
    /\ printed' =
          CASE quad_data.kind = "ImportError" -> printed
            [] quad_data.kind = "None" -> Append(printed, Line("scipy_missing", NoResult))
            [] OTHER -> printed \o QuadReport(frame[1].result, quad_data.value)
    /\ UNCHANGED <<rng, frame, hist, prev, quad_data, plan>>

NextMain ==
    \/ MainCall
    \/ Steps(1)
    \/ MainReport
    \/ \E available \in BOOLEAN : MainQuad(available)
    \/ MainAfterQuad

SpecMain == Init /\ [][NextMain]_vars

\* ------------------------------------------------- solve_production_plan
Resources(w, s, l, p) ==
    [water_units |-> w, sugar_units |-> s, lemon_juice_units |-> l, fruit_puree_units |-> p]

\* AvailableResources()
DefaultResources == Resources(100, 50, 30, 40)

ResourceInputs ==
    {Resources(w, s, l, p) : w \in 0 .. MaxRes, s \in 0 .. MaxRes,
                             l \in 0 .. MaxRes, p \in 0 .. MaxRes}
    \cup {DefaultResources}

WaterLimitSwapped(res, lemonade, fruit_juice) ==
    1 * lemonade + 2 * fruit_juice <= res.water_units

WaterLimit(res, lemonade, fruit_juice) ==
    2 * lemonade + 1 * fruit_juice <= res.water_units

SugarLimit(res, lemonade, fruit_juice) == 1 * lemonade <= res.sugar_units

LemonJuiceLimit(res, lemonade, fruit_juice) == 1 * lemonade <= res.lemon_juice_units

FruitPureeLimit(res, lemonade, fruit_juice) == 2 * fruit_juice <= res.fruit_puree_units

\* Values a decision variable (integer, lowBound=0) can take under the limits:
\* none of the two can exceed the largest amount of a raw material.
PlanRange(res) ==
    0 .. Max(Max(res.water_units, res.sugar_units),
             Max(res.lemon_juice_units, res.fruit_puree_units))

\* The plans the model of lines 53-78 admits.
FeasiblePlans(res) ==
    {p \in PlanRange(res) \X PlanRange(res) :
        /\ WaterLimit(res, p[1], p[2])
        /\ SugarLimit(res, p[1], p[2])
        /\ LemonJuiceLimit(res, p[1], p[2])
        /\ FruitPureeLimit(res, p[1], p[2])}

\* What model.solve returns with status Optimal: a plan of the largest objective.
OptimalPlans(res) ==
    LET plans == FeasiblePlans(res)
        totals == {p[1] + p[2] : p \in plans}
        best == CHOOSE m \in totals : \A x \in totals : x <= m
    IN  {p \in plans : p[1] + p[2] = best}

\* solve_production_plan(resources)
SolveProductionPlan(res) ==
    /\ plan.pc = "idle"
    /\ IF FeasiblePlans(res) = {}
       THEN plan' = res @@
                    [pc |-> "solved", lemonade_units |-> 0, fruit_juice_units |-> 0,
                     total_units |-> 0, solve_status |-> "Infeasible"]
       ELSE \E p \in OptimalPlans(res) :
               plan' = res @@
                    [pc |-> "solved", lemonade_units |-> p[1], fruit_juice_units |-> p[2],
                     total_units |-> p[1] + p[2], solve_status |-> "Optimal"]
    /\ UNCHANGED <<rng, frame, hist, prev, mainpc, printed, quad_data>>

\* The caller takes the plan.
PlanTaken ==
    /\ plan.pc = "solved"
    /\ plan' = NoPlan
    /\ UNCHANGED <<rng, frame, hist, prev, mainpc, printed, quad_data>>

NextPlan ==
    \/ \E res \in ResourceInputs : SolveProductionPlan(res)
    \/ PlanTaken

SpecPlan == Init /\ [][NextPlan]_vars

\* ------------------------------------------------------------ properties
RatLess(a, b) == a.num * b.den < b.num * a.den
RatEq(a, b) == a.num * b.den = b.num * a.den

\* The generator state k draws after state st.
RECURSIVE Advance(_, _)
Advance(st, k) == IF k = 0 THEN st ELSE Advance(NextState(st), k - 1)

\* Number of the samples (x, y) of s with y <= f(x).
UnderCount(f, s) ==
    Cardinality({i \in 1 .. Len(s) : s[i][2] * RES <= EvalScaled(f, s[i][1])})

\* max(f(lower_bound), f(upper_bound)) of a call.
HeightOf(fr) == Max(Eval(fr.function, fr.lower_bound), Eval(fr.function, fr.upper_bound))

InLoop(fr) == fr.pc \in {"loop", "draw_y", "classify", "done"}

\* C1: a call with samples_count <= 0 or upper_bound <= lower_bound ends with
\* ValueError, and at that point the process-wide generator is in the state it
\* was in when the call was made, was not seeded, no draw was made and the
\* integrand was not evaluated.
C1_InvalidArgumentsRaiseBeforeRandomness ==
    \A t \in Threads :
        LET fr == frame[t]
        IN  (fr.pc # "idle" /\ (fr.samples_count <= 0 \/ fr.upper_bound <= fr.lower_bound))
            => /\ fr.pc = "raised"
               /\ fr.result = ValueError
               /\ rng = hist[t].rng_at_call
               /\ ~hist[t].seeded
               /\ hist[t].draws = <<>>
               /\ hist[t].evals = 0

C1_Witness ==
    /\ frame[1].pc = "raised"
    /\ frame[1].samples_count = -5
    /\ frame[1].upper_bound > frame[1].lower_bound
    /\ rng # SeedState(frame[1].random_seed)

SameArguments(c, fr) ==
    /\ c.function = fr.function
    /\ c.lower_bound = fr.lower_bound
    /\ c.upper_bound = fr.upper_bound
    /\ c.samples_count = fr.samples_count
    /\ c.random_seed = fr.random_seed

\* C2: a call that returns with the arguments of an earlier call returns the
\* earlier call's estimate, whatever draws, re-seedings and other calls
\* happened on the generator before or between the two.
C2_SameArgumentsSameEstimate ==
    \A t \in Threads :
        (frame[t].pc = "done" /\ prev.set /\ SameArguments(prev, frame[t]))
        => frame[t].result = prev.result

\* The second of two calls with equal arguments has returned; it started with
\* the generator in another state than the first call left it in.
C2_Witness ==
    /\ frame[1].pc = "done"
    /\ prev.set
    /\ SameArguments(prev, frame[1])
    /\ hist[1].rng_at_call
         # Advance(SeedState(prev.random_seed), 2 * prev.samples_count)
    /\ prev.result.num > 0

\* C3: a successful call leaves the process-wide generator in the state it was
\* in when the call was made.
C3_GlobalGeneratorUntouched ==
    \A t \in Threads : frame[t].pc = "done" => rng = hist[t].rng_at_call

\* The estimate of a call that runs alone: N samples from the stream that
\* starts at the state the seed gives.
RECURSIVE SoloPoints(_, _, _, _, _, _)
SoloPoints(f, l, u, h, st, n) ==
    IF n = 0 THEN 0
    ELSE LET x == Uniform(l, u, RandomOutput(st))
             y == Uniform(0, h, RandomOutput(NextState(st)))
         IN  (IF y * RES <= EvalScaled(f, x) THEN 1 ELSE 0)
             + SoloPoints(f, l, u, h, NextState(NextState(st)), n - 1)

SoloEstimate(fr) ==
    [kind |-> "value",
     num |-> SoloPoints(fr.function, fr.lower_bound, fr.upper_bound, HeightOf(fr),
                        SeedState(fr.random_seed), fr.samples_count)
             * (fr.upper_bound - fr.lower_bound) * HeightOf(fr),
     den |-> fr.samples_count]

\* C4: of two interleaved calls each returns the estimate it returns when run
\* alone with the same arguments.
C4_InterleavedCallsReturnSoloEstimate ==
    \A t \in Threads : frame[t].pc = "done" => frame[t].result = SoloEstimate(frame[t])

\* The i-th draw of a call: odd i an x-draw over [lower_bound, upper_bound],
\* even i a y-draw over [0, height].
ExpectedDraw(fr, i) ==
    IF i % 2 = 1
    THEN [kind |-> "x", low |-> fr.lower_bound, high |-> fr.upper_bound]
    ELSE [kind |-> "y", low |-> 0, high |-> HeightOf(fr)]

\* C5: the draws of a call alternate x, y from the first; there are 2k of them
\* at the head of the loop after k iterations, whatever the classifications
\* were, none before the seeding, and exactly 2N when the call has returned,
\* the generator being 2N draws past the seeded state.
C5_ExactlyTwoDrawsPerSample ==
    \A t \in Threads :
        LET fr == frame[t]
            d == hist[t].draws
        IN  /\ \A i \in 1 .. Len(d) : d[i] = ExpectedDraw(fr, i)
            /\ fr.pc \in {"idle", "raised", "seed", "height"} => d = <<>>
            /\ fr.pc = "loop" => Len(d) = 2 * fr.iter /\ fr.iter <= fr.samples_count
            /\ fr.pc = "draw_y" => Len(d) = 2 * fr.iter + 1 /\ fr.iter < fr.samples_count
            /\ fr.pc = "classify" => Len(d) = 2 * fr.iter + 2 /\ fr.iter < fr.samples_count
            /\ fr.pc = "done"
               => /\ Len(d) = 2 * fr.samples_count
                  /\ rng = Advance(SeedState(fr.random_seed), 2 * fr.samples_count)

\* A call of two samples has returned, one sample under the curve and one not.
C5_Witness ==
    /\ frame[1].pc = "done"
    /\ frame[1].samples_count = 2
    /\ frame[1].points_under_curve = 1
    /\ Len(hist[1].draws) = 4

\* C6 as stated: every sample has lower_bound <= x <= upper_bound and
\* 0 <= y <= height, height = max(f(lower_bound), f(upper_bound)) throughout.
C6_SamplesInsideRectangle ==
    \A t \in Threads :
        LET fr == frame[t]
            s == hist[t].samples
        IN  /\ InLoop(fr) => fr.max_function_value = HeightOf(fr)
            /\ fr.pc = "draw_y"
               => fr.lower_bound * RES <= fr.x_random /\ fr.x_random <= fr.upper_bound * RES
            /\ \A i \in 1 .. Len(s) :
                  /\ fr.lower_bound * RES <= s[i][1] /\ s[i][1] <= fr.upper_bound * RES
                  /\ 0 <= s[i][2] /\ s[i][2] <= HeightOf(fr) * RES

\* C6 amended: every sample has lower_bound <= x <= upper_bound and y between
\* 0 and height (0 <= y <= height when height >= 0, height <= y <= 0 when
\* height < 0), height = max(f(lower_bound), f(upper_bound)) throughout.
C6_SamplesBetweenZeroAndHeight ==
    \A t \in Threads :
        LET fr == frame[t]
            s == hist[t].samples
            h == HeightOf(fr)
        IN  /\ InLoop(fr) => fr.max_function_value = h
            /\ fr.pc = "draw_y"
               => fr.lower_bound * RES <= fr.x_random /\ fr.x_random <= fr.upper_bound * RES
            /\ \A i \in 1 .. Len(s) :
                  /\ fr.lower_bound * RES <= s[i][1] /\ s[i][1] <= fr.upper_bound * RES
                  /\ h >= 0 => (0 <= s[i][2] /\ s[i][2] <= h * RES)
                  /\ h < 0 => (h * RES <= s[i][2] /\ s[i][2] <= 0)

\* Two samples of a call whose height is negative: a y below 0.
C6_Witness ==
    /\ frame[1].pc = "classify"
    /\ frame[1].max_function_value < 0
    /\ frame[1].y_random < 0
    /\ Len(hist[1].samples) = 2

\* C7: in the loop the counter is the number of under-curve samples among
\* those of the completed iterations, y = f(x) included; the value returned is
\* (K / N) * (upper_bound - lower_bound) * max(f(lower_bound), f(upper_bound)).
C7_EstimateIsRatioTimesArea ==
    \A t \in Threads :
        LET fr == frame[t]
            s == hist[t].samples
        IN  /\ fr.pc \in {"loop", "draw_y", "classify"}
               => fr.points_under_curve = UnderCount(fr.function, SubSeq(s, 1, fr.iter))
            /\ fr.pc \in {"loop", "draw_y"} => Len(s) = fr.iter
            /\ fr.pc = "done"
               => /\ Len(s) = fr.samples_count
                  /\ fr.result.kind = "value"
                  /\ fr.result.num * fr.samples_count
                       = UnderCount(fr.function, s)
                         * (fr.upper_bound - fr.lower_bound) * HeightOf(fr)
                         * fr.result.den

\* A call of one sample has returned; the sample lies on the curve above the
\* axis and was counted.
C7_Witness ==
    /\ frame[1].pc = "done"
    /\ frame[1].samples_count = 1
    /\ hist[1].samples[1][2] > 0
    /\ hist[1].samples[1][2] * RES = EvalScaled(frame[1].function, hist[1].samples[1][1])
    /\ frame[1].points_under_curve = 1
    /\ frame[1].result.num = frame[1].rectangle_area

\* The maximum of f over [l, u] lies strictly inside and exceeds f(l) and f(u).
InteriorMaximum(f, l, u) ==
    /\ f.a2 < 0
    /\ l * (-2 * f.a2) < f.a1
    /\ f.a1 < u * (-2 * f.a2)

\* C8 as stated: with an interior maximum above both endpoint values the
\* estimate is lower than the analytic integral.
C8_EstimateBelowIntegral ==
    \A t \in Threads :
        LET fr == frame[t]
        IN  (fr.pc = "done" /\ InteriorMaximum(fr.function, fr.lower_bound, fr.upper_bound))
            => RatLess(fr.result,
                       AnalyticIntegral(fr.function, fr.lower_bound, fr.upper_bound))

\* C8 amended: with an interior maximum above both endpoint values, a height
\* max(f(lower_bound), f(upper_bound)) >= 0 and an analytic integral larger than
\* the rectangle (upper_bound - lower_bound) * height, the estimate is lower
\* than the analytic integral.
C8_EstimateBelowIntegralAboveRectangle ==
    \A t \in Threads :
        LET fr == frame[t]
            integral == AnalyticIntegral(fr.function, fr.lower_bound, fr.upper_bound)
            rectangle == [kind |-> "value",
                          num |-> (fr.upper_bound - fr.lower_bound) * HeightOf(fr),
                          den |-> 1]
        IN  (/\ fr.pc = "done"
             /\ InteriorMaximum(fr.function, fr.lower_bound, fr.upper_bound)
             /\ HeightOf(fr) >= 0
             /\ RatLess(rectangle, integral))
            => RatLess(fr.result, integral)

\* -x^2 + 2x + 1 over [0, 2], two samples: the estimate is the rectangle, 2.
C8_Witness ==
    /\ frame[1].pc = "done"
    /\ frame[1].function = HumpIntegrand
    /\ frame[1].lower_bound = 0
    /\ frame[1].upper_bound = 2
    /\ frame[1].samples_count = 2
    /\ RatEq(frame[1].result, [kind |-> "value", num |-> 2, den |-> 1])

\* The first four lines of main, given the estimate.
ReportedFirst(p, estimate) ==
    /\ Len(p) >= 4
    /\ p[1].line = "title"
    /\ p[2] = [line |-> "monte_carlo", value |-> estimate]
    /\ p[3].line = "analytic" /\ RatEq(p[3].value, [kind |-> "value", num |-> 8, den |-> 3])
    /\ p[4].line = "abs_difference"
    /\ \/ RatEq(p[4].value, [kind |-> "value", num |-> 3 * estimate.num - 8 * estimate.den,
                             den |-> 3 * estimate.den])
       \/ RatEq(p[4].value, [kind |-> "value", num |-> 8 * estimate.den - 3 * estimate.num,
                             den |-> 3 * estimate.den])
    /\ p[4].value.num >= 0

\* C9: main never ends by an exception; before quadrature is consulted it has
\* printed the estimate, the analytic value and their absolute difference in
\* that order; without SciPy try_quad_integration returns None and main prints
\* a notice and ends with no quadrature line; the quadrature value and its
\* difference from the estimate are printed, after those, only with SciPy.
C9_QuadratureUnavailableIsNotAnError ==
    /\ mainpc # "crashed"
    /\ mainpc \in {"start", "monte_carlo"} => printed = <<>> /\ quad_data = NoQuad
    /\ mainpc = "quad" => Len(printed) = 4 /\ quad_data = NoQuad
    /\ mainpc \in {"quad", "quad_returned", "done"} => ReportedFirst(printed, frame[1].result)
    /\ mainpc = "quad_returned"
       => /\ Len(printed) = 4
          /\ ~quad_data.available => quad_data.kind = "None"
          /\ quad_data.available => quad_data.kind = "value"
    /\ (mainpc = "done" /\ ~quad_data.available)
       => /\ Len(printed) = 5
          /\ printed[5].line = "scipy_missing"
    /\ (mainpc = "done" /\ quad_data.available)
       => /\ Len(printed) = 7
          /\ printed[5].line = "quad_title"
          /\ printed[6] = [line |-> "quad", value |-> quad_data.value]
          /\ printed[7].line = "mc_quad_difference"
          /\ RatEq(printed[7].value, AbsDifference(frame[1].result, quad_data.value))

\* main has ended without SciPy: five lines, the last one the notice.
C9_Witness ==
    /\ mainpc = "done"
    /\ ~quad_data.available
    /\ quad_data.kind = "None"
    /\ Len(printed) = 5

NonNegative(p) ==
    /\ p.water_units >= 0
    /\ p.sugar_units >= 0
    /\ p.lemon_juice_units >= 0
    /\ p.fruit_puree_units >= 0

\* C10: for non-negative resources the plan returned has status "Optimal",
\* non-negative amounts within the four limits, a total that is the sum of the
\* two and that no plan within the limits exceeds; for the resources
\* (100, 50, 30, 40) it is lemonade 30, fruit juice 20, total 50.
C10_PlanIsOptimal ==
    (plan.pc = "solved" /\ NonNegative(plan))
    => /\ plan.solve_status = "Optimal"
       /\ plan.lemonade_units >= 0
       /\ plan.fruit_juice_units >= 0
       /\ 2 * plan.lemonade_units + plan.fruit_juice_units <= plan.water_units
       /\ plan.lemonade_units <= plan.sugar_units
       /\ plan.lemonade_units <= plan.lemon_juice_units
       /\ 2 * plan.fruit_juice_units <= plan.fruit_puree_units
       /\ plan.total_units = plan.lemonade_units + plan.fruit_juice_units
       /\ \A a \in 0 .. plan.water_units, b \in 0 .. plan.water_units :
             (/\ 2 * a + b <= plan.water_units
              /\ a <= plan.sugar_units
              /\ a <= plan.lemon_juice_units
              /\ 2 * b <= plan.fruit_puree_units)
             => a + b <= plan.total_units
       /\ (/\ plan.water_units = 100 /\ plan.sugar_units = 50
           /\ plan.lemon_juice_units = 30 /\ plan.fruit_puree_units = 40)
          => /\ plan.lemonade_units = 30
             /\ plan.fruit_juice_units = 20
             /\ plan.total_units = 50

\* The default resources solved: 30 lemonade and 20 fruit juice.
C10_Witness ==
    /\ plan.pc = "solved"
    /\ plan.water_units = 100
    /\ plan.sugar_units = 50
    /\ plan.lemon_juice_units = 30
    /\ plan.fruit_puree_units = 40
    /\ plan.total_units = 50

====
